---- MODULE Spec2Model ----
(***************************************************************************)
(* A model of rescreener: the construction of a Rescreener (validation and *)
(* output directory layout), run_bootstraps (cohort sampling and the       *)
(* worker pool that runs crispr_screen once per cohort) and the            *)
(* BootstrapAnalysis tables (overlaps, recovery, subset_recovery).         *)
(*                                                                         *)
(* Python values are written as follows.  A list is a sequence.  An        *)
(* Optional value is a sequence of length at most one: <<>> is None and    *)
(* <<v>> is the value v.  A path is the sequence of its components.  A     *)
(* fraction num / den computed by a true division is the pair              *)
(* [num |-> n, den |-> d]; d = 0 is the NaN or infinity that the division  *)
(* of counts by a zero count yields.                                       *)
(***************************************************************************)
EXTENDS Integers, Sequences, FiniteSets, TLC

VARIABLES
    \* ---- Rescreener.__init__ ----
    step,                 \* index in InitSteps of the next statement group
    status,               \* "running", "ok" or "error"
    err,                  \* the exception raised, <<>> when none
    columns,              \* self._columns
    reference_libraries,  \* self.reference_libraries
    test_libraries,       \* self.test_libraries
    cfg,                  \* the keyword arguments stored on self
    fs,                   \* the filesystem: [dirs, files], sets of paths
    fs0,                  \* the filesystem when the constructor was called
    fsLog,                \* the mutating filesystem calls made so far
    \* ---- Rescreener.run_bootstraps ----
    rpc,                  \* "idle", "prepared", "mapping", "returned", "raised"
    params,               \* step_value, num_reps, seed of the call
    args_list,            \* the (name, treatment_subset) list
    task,                 \* per index of args_list: its state in the pool
    worker,               \* per pool worker: the task it runs, 0 when idle
    invocations,          \* every crispr_screen process started (Popen)
    collected,            \* results the imap iterator has yielded
    \* ---- BootstrapAnalysis ----
    apc,                  \* "new", "loaded" or "error"
    inputs,               \* the result files and the constructor arguments
    standard,             \* self.standard
    bootstraps,           \* self.bootstraps
    overlaps,             \* self.overlaps
    recovery,             \* self.recovery
    subset_recovery,      \* self.subset_recovery
    total_tests,          \* self.total_tests
    \* ---- across calls of run_bootstraps ----
    rng,                  \* the state of the global generator np.random
    prev                  \* the call before this one: None, or its arguments,
                          \* its pool size and the args_list it built

setupVars == <<step, status, err, columns, cfg, fs, fs0, fsLog>>
objVars == <<reference_libraries, test_libraries>>
runVars == <<rpc, params, args_list, task, worker, invocations, collected>>
anaVars == <<apc, inputs, standard, bootstraps, overlaps, recovery,
             subset_recovery, total_tests>>
rerunVars == <<rng, prev>>
vars == <<setupVars, objVars, runVars, anaVars, rerunVars>>

----------------------------------------------------------------------------
(* Generic helpers *)

None == <<>>
Some(v) == <<v>>
IsNone(o) == o = <<>>
Get(o) == o[1]

Range(s) == {s[i] : i \in 1..Len(s)}

SeqsUpTo(S, n) == UNION {[1..k -> S] : k \in 0..n}

IsPrefixOf(p, q) == Len(p) <= Len(q) /\ SubSeq(q, 1, Len(p)) = p

----------------------------------------------------------------------------
(* Bounds of the model *)

\* number of library columns of the count matrix
MaxCols == 2
\* length of the reference, test and exclusion lists given to the constructor
MaxListLen == 1
\* number of test libraries of the Rescreener that runs the bootstraps
MaxTests == 3
\* largest step_value, num_reps and seed given to run_bootstraps
MaxStep == 2
MaxReps == 2
MaxSeed == 1
\* multiprocessing's default pool size (the number of CPUs)
CpuCount == 2
\* number of rows of a result table (gene_results.tsv)
MaxRows == 2

----------------------------------------------------------------------------
(* Rescreener.__init__ : inputs *)

LibPool == <<"R1", "T1", "T2", "T3", "T4", "T5">>

\* the headers a count matrix may have: two leading columns, then libraries
Headers ==
    {lead \o SubSeq(LibPool, 1, k) :
        lead \in {<<"Guide", "Gene">>, <<"Gene", "Guide">>}, k \in 0..MaxCols}
    \cup {<<"Guide">>}

\* the names a caller may pass: the libraries, a name that is no column, and
\* one of the two fixed columns
Names == Range(SubSeq(LibPool, 1, MaxCols)) \cup {"X", "Gene"}

NameLists == SeqsUpTo(Names, MaxListLen)

AggregationMethods == {"geopagg", "rra", "inc", "mean"}

\* the output root may be absent, an empty directory, a directory holding an
\* earlier run, or a regular file
InitialTrees ==
    { [dirs |-> {}, files |-> {}],
      [dirs |-> {<<"out">>}, files |-> {}],
      [dirs |-> {<<"out">>, <<"out", "subsets">>},
       files |-> {<<"out", "subsets", "old.gene_results.tsv">>}],
      [dirs |-> {}, files |-> {<<"out">>}] }

----------------------------------------------------------------------------
(* rescreener._constants (imported by rescreen.py and analysis.py) *)

FULL_DIR == "full"
SUBSET_DIR == "subsets"
FULL_NAME_PREFIX == "full"
\* the characters of the prefix of every cohort name
SUBSET_NAME_PREFIX == <<"s", "u", "b">>

----------------------------------------------------------------------------
(* The filesystem calls the constructor makes *)

Exists(tree, p) == p \in tree.dirs \/ p \in tree.files

\* a removal that takes the entry p alone and leaves what is under it
rmtree_RootOnly(tree, p) ==
    [dirs |-> tree.dirs \ {p}, files |-> tree.files \ {p}]

\* shutil.rmtree(p): p and everything under it is gone
rmtree(tree, p) ==
    [dirs |-> {d \in tree.dirs : ~IsPrefixOf(p, d)},
     files |-> {f \in tree.files : ~IsPrefixOf(p, f)}]

\* os.makedirs(p): p and its missing ancestors become directories
makedirs(tree, p) ==
    [tree EXCEPT !.dirs = @ \cup {SubSeq(p, 1, k) : k \in 1..Len(p)}]

----------------------------------------------------------------------------
(* Rescreener.__init__ : the validations, as the code computes them *)

Take(s, n) == SubSeq(s, 1, IF Len(s) < n THEN Len(s) ELSE n)
Drop(s, n) == SubSeq(s, n + 1, Len(s))

\* _fetch_columns: columns[:2] != ["Guide", "Gene"] raises ValueError
fetch_columns_ok(cols) == Take(cols, 2) = <<"Guide", "Gene">>

\* _build_test_libraries: the columns that are not excluded, not a reference
\* library and not one of the two fixed columns, in column order
build_test_libraries(cols, refs, exclude_samples) ==
    LET given == IF IsNone(exclude_samples) THEN {}
                 ELSE Range(Get(exclude_samples))
        exclusion == given \cup Range(refs) \cup {"Guide", "Gene"}
    IN SelectSeq(cols, LAMBDA n : n \notin exclusion)

\* the membership test of _validate_sample_names: name in self._columns[2:]
IsLibraryColumn(cols, name) == name \in Range(Drop(cols, 2))

\* _validate_sample_names: the first offending name decides the error
validate_sample_names(cols, refs, tests) ==
    IF \E i \in 1..Len(refs) : ~IsLibraryColumn(cols, refs[i])
    THEN "unknown_reference"
    ELSE IF \E i \in 1..Len(tests) : ~IsLibraryColumn(cols, tests[i])
    THEN "unknown_test"
    ELSE "ok"

\* _validate_aggregation_method
supported_methods == {"geopagg", "rra", "inc"}

\* OutputDirBranch without the overwrite test: an existing root is always replaced
OutputDirBranch_AlwaysReplace(exists, overwrite) ==
    IF exists THEN "replace" ELSE "create"

\* the branch _initialize_output_dir takes once the prefix is known
OutputDirBranch(exists, overwrite) ==
    IF exists
    THEN IF overwrite THEN "replace" ELSE "conflict"
    ELSE "create"

\* InitSteps with the output directory initialised before the tool and the
\* aggregation method are validated
InitSteps_DirBeforeValidation ==
    <<"fetch_columns", "set_libraries", "validate_sample_names",
      "store_config", "initialize_output_dir", "validate_crispr_screen",
      "validate_aggregation_method">>

\* the statement groups of __init__, in the order the constructor runs them
InitSteps ==
    <<"fetch_columns", "set_libraries", "validate_sample_names",
      "store_config", "validate_crispr_screen",
      "validate_aggregation_method", "initialize_output_dir">>

----------------------------------------------------------------------------
(* Values of the variables a specification does not use *)

NoErr == [type |-> "", what |-> "", at |-> ""]
NoCfg == [stored |-> FALSE, prefix |-> None, overwrite |-> FALSE,
          aggregation_method |-> "", with_replacement |-> FALSE,
          n_threads |-> 0]
NoParams == [step_value |-> 1, num_reps |-> 0, seed |-> 0]
NoInputs == [standard |-> <<>>, cohorts |-> <<>>, fdr |-> 0,
             ignore_amalgams |-> TRUE]
EmptyTree == [dirs |-> {}, files |-> {}]

RunIdle ==
    /\ rpc = "idle"
    /\ params = NoParams
    /\ args_list = <<>>
    /\ task = <<>>
    /\ worker = <<>>
    /\ invocations = <<>>
    /\ collected = 0
    /\ rng = 0
    /\ prev = None

AnalysisIdle ==
    /\ apc = "new"
    /\ inputs = NoInputs
    /\ standard = <<>>
    /\ bootstraps = <<>>
    /\ overlaps = <<>>
    /\ recovery = <<>>
    /\ subset_recovery = <<>>
    /\ total_tests = 0

----------------------------------------------------------------------------
(* Rescreener.__init__ : one action per statement group *)

At(name) == status = "running" /\ InitSteps[step] = name

Advance ==
    /\ step' = step + 1
    /\ status' = IF step = Len(InitSteps) THEN "ok" ELSE "running"
    /\ err' = err

Raise(type, what) ==
    /\ status' = "error"
    /\ err' = [type |-> type, what |-> what, at |-> InitSteps[step]]
    /\ step' = step

\* self._columns = self._fetch_columns()
FetchColumns ==
    /\ At("fetch_columns")
    /\ \E header \in Headers :
          IF fetch_columns_ok(header)
          THEN columns' = header /\ Advance
          ELSE columns' = columns /\ Raise("ValueError", "header")
    /\ UNCHANGED <<cfg, fs, fs0, fsLog, objVars, runVars, anaVars,
                   rerunVars>>

\* self.reference_libraries = ...; self.test_libraries = explicit or derived
SetLibraries ==
    /\ At("set_libraries")
    /\ \E refs \in NameLists :
          /\ reference_libraries' = refs
          /\ \/ \E tests \in NameLists :
                   test_libraries' = tests /\ Advance
             \/ \E exclude_samples \in {None} \cup {Some(l) : l \in NameLists} :
                   LET inclusion ==
                           build_test_libraries(columns, refs, exclude_samples)
                   IN IF Len(inclusion) = 0
                      THEN /\ test_libraries' = test_libraries
                           /\ Raise("ValueError", "empty_test_set")
                      ELSE test_libraries' = inclusion /\ Advance
    /\ UNCHANGED <<columns, cfg, fs, fs0, fsLog, runVars, anaVars, rerunVars>>

\* self._validate_sample_names()
ValidateSampleNames ==
    /\ At("validate_sample_names")
    /\ LET v == validate_sample_names(columns, reference_libraries,
                                      test_libraries)
       IN IF v = "ok" THEN Advance ELSE Raise("ValueError", v)
    /\ UNCHANGED <<columns, cfg, fs, fs0, fsLog, objVars, runVars, anaVars,
                   rerunVars>>

\* self.prefix = prefix ... self.n_threads = n_threads
StoreConfig ==
    /\ At("store_config")
    /\ \E prefix \in {None, Some("out")}, overwrite \in BOOLEAN,
          method \in AggregationMethods :
          cfg' = [cfg EXCEPT !.stored = TRUE, !.prefix = prefix,
                             !.overwrite = overwrite,
                             !.aggregation_method = method]
    /\ Advance
    /\ UNCHANGED <<columns, fs, fs0, fsLog, objVars, runVars, anaVars,
                   rerunVars>>

\* self._validate_crispr_screen(): shutil.which finds the tool or not
ValidateCrisprScreen ==
    /\ At("validate_crispr_screen")
    /\ \E on_path \in BOOLEAN :
          IF on_path THEN Advance ELSE Raise("RuntimeError", "tool_not_found")
    /\ UNCHANGED <<columns, cfg, fs, fs0, fsLog, objVars, runVars, anaVars,
                   rerunVars>>

\* self._validate_aggregation_method()
ValidateAggregationMethod ==
    /\ At("validate_aggregation_method")
    /\ IF cfg.aggregation_method \in supported_methods
       THEN Advance
       ELSE Raise("ValueError", "aggregation_method")
    /\ UNCHANGED <<columns, cfg, fs, fs0, fsLog, objVars, runVars, anaVars,
                   rerunVars>>

\* self._initialize_output_dir()
InitializeOutputDir ==
    /\ At("initialize_output_dir")
    /\ IF IsNone(cfg.prefix)
       THEN /\ Raise("ValueError", "no_prefix")
            /\ UNCHANGED <<fs, fsLog>>
       ELSE LET out_dir == <<Get(cfg.prefix)>>
                full_dir == out_dir \o <<FULL_DIR>>
                subset_dir == out_dir \o <<SUBSET_DIR>>
                branch == OutputDirBranch(Exists(fs, out_dir), cfg.overwrite)
                cleared == IF branch = "replace" THEN rmtree(fs, out_dir)
                           ELSE fs
                removal == IF branch = "replace" THEN <<"rmtree">> ELSE <<>>
            IN CASE branch = "conflict" ->
                       /\ Raise("FileExistsError", "directory_exists")
                       /\ UNCHANGED <<fs, fsLog>>
                 [] branch = "replace" /\ out_dir \in fs.files ->
                       \* shutil.rmtree refuses a path that is no directory
                       /\ Raise("NotADirectoryError", "not_a_directory")
                       /\ UNCHANGED <<fs, fsLog>>
                 [] OTHER ->
                       /\ fs' = makedirs(makedirs(cleared, full_dir),
                                         subset_dir)
                       /\ fsLog' = fsLog \o removal \o
                                   <<"makedirs", "makedirs">>
                       /\ Advance
    /\ UNCHANGED <<columns, cfg, fs0, objVars, runVars, anaVars,
                   rerunVars>>

SetupInit ==
    /\ step = 1
    /\ status = "running"
    /\ err = NoErr
    /\ columns = <<>>
    /\ reference_libraries = <<>>
    /\ test_libraries = <<>>
    /\ cfg = NoCfg
    /\ fs \in InitialTrees
    /\ fs0 = fs
    /\ fsLog = <<>>
    /\ RunIdle
    /\ AnalysisIdle

SetupNext ==
    \/ FetchColumns
    \/ SetLibraries
    \/ ValidateSampleNames
    \/ StoreConfig
    \/ ValidateCrisprScreen
    \/ ValidateAggregationMethod
    \/ InitializeOutputDir

\* the construction of a Rescreener
SpecSetup == SetupInit /\ [][SetupNext]_vars

----------------------------------------------------------------------------
(* Rescreener.run_bootstraps : sampling the cohorts *)

\* ARange with the stop value included
RECURSIVE ARange_Inclusive(_, _, _)
ARange_Inclusive(start, stop, step_value) ==
    IF start > stop THEN <<>>
    ELSE <<start>> \o ARange_Inclusive(start + step_value, stop, step_value)

\* np.arange(start, stop, step_value) for a positive step
RECURSIVE ARange(_, _, _)
ARange(start, stop, step_value) ==
    IF start >= stop THEN <<>>
    ELSE <<start>> \o ARange(start + step_value, stop, step_value)

\* the seeded generator behind np.random: a deterministic function of its
\* state (a small congruential generator stands for the Mersenne Twister)
RngSeed(seed) == seed % 31
RngNext(s) == (7 * s + 3) % 31

\* a seeding that leaves the global generator in the state it was in
SeededState_Keep(current, seed) == current

\* np.random.seed(seed): the state of the global generator after the call,
\* whatever state it was in before
SeededState(current, seed) == RngSeed(seed)

RemoveAt(s, i) == SubSeq(s, 1, i - 1) \o SubSeq(s, i + 1, Len(s))

\* np.random.choice(pool, size, replace): size draws, each advancing the
\* generator; without replacement a drawn position leaves the pool
RECURSIVE Choice(_, _, _, _)
Choice(pool, size, replace, s) ==
    IF size = 0 THEN [out |-> <<>>, rng |-> s]
    ELSE LET s1 == RngNext(s)
             i == 1 + (s1 % Len(pool))
             rest == Choice(IF replace THEN pool ELSE RemoveAt(pool, i),
                            size - 1, replace, s1)
         IN [out |-> <<pool[i]>> \o rest.out, rng |-> rest.rng]

\* str(n) of a non-negative integer, as its sequence of characters
DigitChars == <<"0", "1", "2", "3", "4", "5", "6", "7", "8", "9">>
RECURSIVE Digits(_)
Digits(n) ==
    IF n < 10 THEN <<DigitChars[n + 1]>>
    ELSE Digits(n \div 10) \o <<DigitChars[(n % 10) + 1]>>

\* CohortName without the replicate index
CohortName_NoReplicate(subset_size, rep_index) ==
    SUBSET_NAME_PREFIX \o <<"_">> \o Digits(subset_size)

\* f"{SUBSET_NAME_PREFIX}_{subset_size}_{rep_index}"
CohortName(subset_size, rep_index) ==
    SUBSET_NAME_PREFIX \o <<"_">> \o Digits(subset_size)
        \o <<"_">> \o Digits(rep_index)

\* the inner loop: for rep_index in range(num_reps), from rep_index on
RECURSIVE SampleReps(_, _, _, _, _, _)
SampleReps(tests, subset_size, rep_index, num_reps, replace, s) ==
    IF rep_index >= num_reps THEN [args |-> <<>>, rng |-> s]
    ELSE LET drawn == Choice(tests, subset_size, replace, s)
             rest == SampleReps(tests, subset_size, rep_index + 1, num_reps,
                                replace, drawn.rng)
         IN [args |-> << <<CohortName(subset_size, rep_index), drawn.out>> >>
                        \o rest.args,
             rng |-> rest.rng]

\* the outer loop: for subset_size in sizes
RECURSIVE SampleSizes(_, _, _, _, _)
SampleSizes(tests, sizes, num_reps, replace, s) ==
    IF sizes = <<>> THEN <<>>
    ELSE LET reps == SampleReps(tests, Head(sizes), 0, num_reps, replace, s)
         IN reps.args
                \o SampleSizes(tests, Tail(sizes), num_reps, replace, reps.rng)

\* the state the two loops leave the generator in
RECURSIVE StateAfterSizes(_, _, _, _, _)
StateAfterSizes(tests, sizes, num_reps, replace, s) ==
    IF sizes = <<>> THEN s
    ELSE StateAfterSizes(tests, Tail(sizes), num_reps, replace,
                         SampleReps(tests, Head(sizes), 0, num_reps, replace,
                                    s).rng)

\* args_list as run_bootstraps builds it
BuildArgsList(tests, step_value, num_reps, seed, replace) ==
    SampleSizes(tests, ARange(1, Len(tests), step_value), num_reps, replace,
                RngSeed(seed))

----------------------------------------------------------------------------
(* Rescreener.run_bootstraps : the pool *)

SubsetDir == <<"out", SUBSET_DIR>>

\* os.path.join(directory, name) for a name that holds no separator
PathJoin(directory, name) == [dir |-> directory, name |-> name]

\* _run_single_bootstrap: the crispr_screen process started for one element
\* of args_list (i is its index in args_list, kept to tell which element an
\* invocation came from)
run_single_bootstrap(i, args, refs) ==
    [task |-> i,
     output_prefix |-> PathJoin(SubsetDir, args[1]),
     reference_libraries |-> refs,
     test_libraries |-> args[2]]

\* multiprocessing.Pool(processes=total_threads)
PoolSize(n_threads) == IF n_threads > 0 THEN n_threads ELSE CpuCount

\* CanReturn when the results are not waited for
CanReturn_NoWait(n_collected, n_tasks) == TRUE

\* list(tqdm(pool.imap(...))) ends once every result has been yielded
CanReturn(n_collected, n_tasks) == n_collected = n_tasks

Queued == {i \in 1..Len(task) : task[i] = "queued"}

\* np.random.seed(seed) and the two loops that fill args_list: the global
\* generator is seeded, then every draw advances it
DrawCohorts(step_value, num_reps, seed) ==
    LET seeded == SeededState(rng, seed)
        sizes == ARange(1, Len(test_libraries), step_value)
    IN /\ params' = [step_value |-> step_value, num_reps |-> num_reps,
                     seed |-> seed]
       /\ args_list' = SampleSizes(test_libraries, sizes, num_reps,
                                   cfg.with_replacement, seeded)
       /\ rng' = StateAfterSizes(test_libraries, sizes, num_reps,
                                 cfg.with_replacement, seeded)

\* run_bootstraps(step_value, num_reps, seed) is called
PrepareArgs ==
    /\ rpc = "idle"
    /\ \E step_value \in 1..MaxStep, num_reps \in 0..MaxReps,
          seed \in 0..MaxSeed :
          DrawCohorts(step_value, num_reps, seed)
    /\ rpc' = "prepared"
    /\ UNCHANGED <<task, worker, invocations, collected, setupVars, objVars,
                   anaVars, prev>>

\* the pool is created and imap queues one task per element of args_list
StartPool ==
    /\ rpc = "prepared"
    /\ rpc' = "mapping"
    /\ task' = [i \in 1..Len(args_list) |-> "queued"]
    /\ worker' = [w \in 1..PoolSize(cfg.n_threads) |-> 0]
    /\ UNCHANGED <<params, args_list, invocations, collected, setupVars,
                   objVars, anaVars, rerunVars>>

\* an idle worker takes the oldest queued task and starts crispr_screen
WorkerTake(w) ==
    /\ rpc = "mapping"
    /\ worker[w] = 0
    /\ Queued # {}
    /\ LET i == CHOOSE q \in Queued : \A r \in Queued : q <= r
       IN /\ task' = [task EXCEPT ![i] = "running"]
          /\ worker' = [worker EXCEPT ![w] = i]
          /\ invocations' =
                Append(invocations,
                       run_single_bootstrap(i, args_list[i],
                                            reference_libraries))
    /\ UNCHANGED <<rpc, params, args_list, collected, setupVars, objVars,
                   anaVars, rerunVars>>

\* cmd.communicate() returns: the process of the worker's task has exited
WorkerFinish(w) ==
    /\ rpc = "mapping"
    /\ worker[w] # 0
    /\ task' = [task EXCEPT ![worker[w]] = "done"]
    /\ worker' = [worker EXCEPT ![w] = 0]
    /\ UNCHANGED <<rpc, params, args_list, invocations, collected, setupVars,
                   objVars, anaVars, rerunVars>>

\* the imap iterator yields the next result, in the order of args_list
Collect ==
    /\ rpc = "mapping"
    /\ collected < Len(args_list)
    /\ task[collected + 1] = "done"
    /\ collected' = collected + 1
    /\ UNCHANGED <<rpc, params, args_list, task, worker, invocations,
                   setupVars, objVars, anaVars, rerunVars>>

\* list(...) is complete, the with block ends, run_bootstraps returns
Return ==
    /\ rpc = "mapping"
    /\ CanReturn(collected, Len(args_list))
    /\ rpc' = "returned"
    /\ UNCHANGED <<params, args_list, task, worker, invocations, collected,
                   setupVars, objVars, anaVars, rerunVars>>

\* the pool sizes a Rescreener may be given: n_threads
ThreadCounts == {-1, 1, 2}

\* run_bootstraps is called once more with the arguments of the call that
\* has returned, on the same libraries and under any pool size; the global
\* generator is in the state the first call left it in
RunAgain ==
    /\ rpc = "returned"
    /\ IsNone(prev)
    /\ prev' = Some([params |-> params, n_threads |-> cfg.n_threads,
                     args_list |-> args_list])
    /\ DrawCohorts(params.step_value, params.num_reps, params.seed)
    /\ rpc' = "prepared"
    /\ task' = <<>>
    /\ worker' = <<>>
    /\ invocations' = <<>>
    /\ collected' = 0
    /\ \E n_threads \in ThreadCounts :
          cfg' = [cfg EXCEPT !.n_threads = n_threads]
    /\ UNCHANGED <<step, status, err, columns, fs, fs0, fsLog, objVars,
                   anaVars>>

\* the Rescreeners run_bootstraps is called on: the constructor has succeeded.
\* The test libraries are columns of the matrix, in column order; the empty
\* list is the one a caller passes as test_libraries=[], which
\* _validate_sample_names accepts.
TestLists == {SubSeq(LibPool, 2, n + 1) : n \in 0..MaxTests}

ReadyTree ==
    [dirs |-> {<<"out">>, <<"out", FULL_DIR>>, <<"out", SUBSET_DIR>>},
     files |-> {}]

RunInit ==
    /\ step = Len(InitSteps) + 1
    /\ status = "ok"
    /\ err = NoErr
    /\ columns = <<"Guide", "Gene">> \o SubSeq(LibPool, 1, MaxTests + 1)
    /\ reference_libraries = <<"R1">>
    /\ test_libraries \in TestLists
    /\ validate_sample_names(columns, reference_libraries, test_libraries)
           = "ok"
    /\ \E replace \in BOOLEAN, n_threads \in ThreadCounts :
          cfg = [stored |-> TRUE, prefix |-> Some("out"), overwrite |-> FALSE,
                 aggregation_method |-> "geopagg",
                 with_replacement |-> replace, n_threads |-> n_threads]
    /\ fs = ReadyTree
    /\ fs0 = EmptyTree
    /\ fsLog = <<"makedirs", "makedirs">>
    /\ RunIdle
    /\ AnalysisIdle

RunNext ==
    \/ PrepareArgs
    \/ StartPool
    \/ \E w \in DOMAIN worker : WorkerTake(w)
    \/ \E w \in DOMAIN worker : WorkerFinish(w)
    \/ Collect
    \/ Return

\* one call of run_bootstraps on a constructed Rescreener
SpecRun == RunInit /\ [][RunNext]_vars

RerunNext ==
    \/ RunNext
    \/ RunAgain

\* two calls of run_bootstraps, one after the other, with the same arguments
SpecRerun == RunInit /\ [][RerunNext]_vars

----------------------------------------------------------------------------
(* BootstrapAnalysis : names.  A string is the sequence of its characters; *)
(* the two extensions ".gene_results" and ".tsv" are one element each.     *)

IndexOf(s, c) ==
    IF \E i \in 1..Len(s) : s[i] = c
    THEN CHOOSE i \in 1..Len(s) : s[i] = c /\ \A j \in 1..(i - 1) : s[j] # c
    ELSE 0

\* s.split(sep): the pieces between the occurrences of sep
RECURSIVE Split(_, _)
Split(s, sep) ==
    LET i == IndexOf(s, sep)
    IN IF i = 0 THEN <<s>>
       ELSE <<SubSeq(s, 1, i - 1)>> \o Split(SubSeq(s, i + 1, Len(s)), sep)

DigitValue(c) == (CHOOSE d \in 1..10 : DigitChars[d] = c) - 1

IsDigits(s) == s # <<>> /\ \A i \in 1..Len(s) : s[i] \in Range(DigitChars)

RECURSIVE DigitsValue(_)
DigitsValue(s) ==
    IF s = <<>> THEN 0
    ELSE 10 * DigitsValue(SubSeq(s, 1, Len(s) - 1)) + DigitValue(s[Len(s)])

\* int(token): None stands for the ValueError of a token that is no number
ParseInt(token) == IF IsDigits(token) THEN Some(DigitsValue(token)) ELSE None

\* int(name.split("_")[-1]), None when it raises
ReplicateOf(name) ==
    LET tokens == Split(name, "_") IN ParseInt(tokens[Len(tokens)])

\* a parse of the subset size that reads the last token
SubsetOf_LastToken(name) ==
    LET tokens == Split(name, "_") IN ParseInt(tokens[Len(tokens)])

\* int(name.split("_")[-2]), None when it raises
SubsetOf(name) ==
    LET tokens == Split(name, "_")
    IN IF Len(tokens) < 2 THEN None ELSE ParseInt(tokens[Len(tokens) - 1])

\* os.path.basename(x).split(".gene_results")[0]
cohort_name(file_name) == Split(file_name, ".gene_results")[1]

----------------------------------------------------------------------------
(* BootstrapAnalysis : inputs.  A gene name is a sequence of pieces; an    *)
(* fdr is written in thousandths (100 is 0.1).                             *)

GeneA == <<"A">>
GeneAP1 == <<"A", "_P1">>
GeneAmalgam == <<"amalgam", "_1">>

\* the rows a result table may hold
RowPool ==
    << [gene |-> GeneA, fdr |-> 50],
       [gene |-> GeneA, fdr |-> 100],
       [gene |-> GeneAP1, fdr |-> 50],
       [gene |-> GeneAmalgam, fdr |-> 50] >>

\* the tables of at most n rows, one per multiset of rows
Tables(n) ==
    UNION { { [i \in 1..k |-> RowPool[f[i]]] :
                f \in {g \in [1..k -> 1..Len(RowPool)] :
                          \A i \in 1..(k - 1) : g[i] <= g[i + 1]} } :
            k \in 0..n }

ResultFile(subset_size, rep_index) ==
    CohortName(subset_size, rep_index) \o <<".gene_results", ".tsv">>

\* the result files glob finds in subsets/: none, two cohorts of one subset
\* size, or two cohorts of different subset sizes
FileSets ==
    { <<>>,
      <<ResultFile(1, 0), ResultFile(1, 1)>>,
      <<ResultFile(1, 0), ResultFile(2, 0)>> }

AnalysisInputs ==
    { [standard |-> std, cohorts |-> cohorts, fdr |-> 100,
       ignore_amalgams |-> ia] :
        std \in Tables(MaxRows),
        cohorts \in UNION { { [i \in 1..Len(names) |->
                                  [file |-> names[i], rows |-> tabs[i]]] :
                                tabs \in [1..Len(names) -> Tables(MaxRows)] } :
                            names \in FileSets },
        ia \in BOOLEAN }

----------------------------------------------------------------------------
(* BootstrapAnalysis : the tables, as the code computes them *)

\* pl.col("gene").str.starts_with("amalgam")
starts_with_amalgam(gene) == gene # <<>> /\ gene[1] = "amalgam"

\* _load_hits_dataframe
load_hits_dataframe(rows, fdr, ignore_amalgams) ==
    LET frame == SelectSeq(rows, LAMBDA r : r.fdr < fdr)
    IN IF ignore_amalgams
       THEN SelectSeq(frame, LAMBDA r : ~starts_with_amalgam(r.gene))
       ELSE frame

\* _load_standard
load_standard(in) ==
    load_hits_dataframe(in.standard, in.fdr, in.ignore_amalgams)

\* frame.with_columns(cohort, replicate, subset): every row of the frame
\* gets the three values; a frame without rows stays without rows
with_columns(frame, name) ==
    [i \in 1..Len(frame) |->
        [gene |-> frame[i].gene, fdr |-> frame[i].fdr, cohort |-> name,
         replicate |-> Get(ReplicateOf(name)), subset |-> Get(SubsetOf(name))]]

\* _load_bootstraps: the frames of the files, concatenated; the filter is
\* called with (path, self.fdr), so ignore_amalgams has its default, True
RECURSIVE load_bootstraps(_, _)
load_bootstraps(cohorts, fdr) ==
    IF cohorts = <<>> THEN <<>>
    ELSE with_columns(load_hits_dataframe(Head(cohorts).rows, fdr, TRUE),
                      cohort_name(Head(cohorts).file))
             \o load_bootstraps(Tail(cohorts), fdr)

\* self.standard.select("gene").to_series().unique()
in_set(std) == {std[i].gene : i \in 1..Len(std)}

\* _measure_overlap before its sort: one record per (cohort, replicate,
\* subset) group of the rows of the bootstrap table
measure_overlap(std, boots) ==
    LET groups == {[cohort |-> boots[i].cohort,
                    replicate |-> boots[i].replicate,
                    subset |-> boots[i].subset] : i \in 1..Len(boots)}
        \* pl.col("gene").is_in(in_set).sum() over the rows of the group
        num(g) == Cardinality({i \in 1..Len(boots) :
                                  /\ boots[i].cohort = g.cohort
                                  /\ boots[i].replicate = g.replicate
                                  /\ boots[i].subset = g.subset
                                  /\ boots[i].gene \in in_set(std)})
    IN {[cohort |-> g.cohort, replicate |-> g.replicate, subset |-> g.subset,
         num_overlapping |-> num(g),
         frac_overlapping |-> [num |-> num(g),
                               den |-> Cardinality(in_set(std))]] :
        g \in groups}

\* self.bootstraps.select("cohort").n_unique()
n_unique_cohorts(frame) ==
    Cardinality({frame[i].cohort : i \in 1..Len(frame)})

\* _measure_hit_recovery before its sort: cohort_size is None or one size
measure_hit_recovery(std, boots, cohort_size) ==
    LET in_std == SelectSeq(boots, LAMBDA r : r.gene \in in_set(std))
        subset == IF IsNone(cohort_size) THEN in_std
                  ELSE SelectSeq(in_std,
                                 LAMBDA r : r.subset = Get(cohort_size))
        total == n_unique_cohorts(subset)
        \* pl.col("cohort").len() over the rows of the gene
        num(g) == Cardinality({i \in 1..Len(subset) : subset[i].gene = g})
    IN {[gene |-> g, num_tests |-> num(g),
         frac_tests |-> [num |-> num(g), den |-> total]] :
        g \in {subset[i].gene : i \in 1..Len(subset)}}

\* the orders in which a sort may leave the records S: key ascending, equal
\* keys in any order
SortedBy(S, key) ==
    {q \in [1..Cardinality(S) -> S] :
        /\ \A i, j \in 1..Cardinality(S) : i # j => q[i] # q[j]
        /\ \A i \in 1..(Cardinality(S) - 1) : key[q[i]] <= key[q[i + 1]]}

\* .sort(["subset", "replicate"]); the subset sizes and replicate indices of
\* the model are below 1000
OverlapKey(r) == r.subset * 1000 + r.replicate

\* the tables _measure_overlap may return
overlap_tables(std, boots) ==
    LET records == measure_overlap(std, boots)
    IN SortedBy(records, [r \in records |-> OverlapKey(r)])

\* .sort("frac_tests"): the fractions of one table have one denominator
RecoveryKey(r) == r.frac_tests.num

\* the tables _measure_hit_recovery may return
hit_recovery_tables(std, boots, cohort_size) ==
    LET records == measure_hit_recovery(std, boots, cohort_size)
    IN SortedBy(records, [r \in records |-> RecoveryKey(r)])

\* self.bootstraps.select("subset").to_series().unique()
cohort_sizes(boots) == {boots[i].subset : i \in 1..Len(boots)}

\* the concatenations of one table per size, for the sizes in order
RECURSIVE ConcatPerSize(_, _, _)
ConcatPerSize(std, boots, sizes) ==
    IF sizes = <<>> THEN {<<>>}
    ELSE {[i \in 1..Len(t) |->
              [gene |-> t[i].gene, num_tests |-> t[i].num_tests,
               frac_tests |-> t[i].frac_tests, subset |-> Head(sizes)]]
              \o rest :
          t \in hit_recovery_tables(std, boots, Some(Head(sizes))),
          rest \in ConcatPerSize(std, boots, Tail(sizes))}

\* the tables _measure_subset_recovery may return; unique() yields the sizes
\* in any order
subset_recovery_tables(std, boots) ==
    UNION {ConcatPerSize(std, boots, sizes) :
           sizes \in SortedBy(cohort_sizes(boots),
                              [x \in cohort_sizes(boots) |-> 0])}

----------------------------------------------------------------------------
(* BootstrapAnalysis.__init__ *)

\* pl.concat of an empty list raises ValueError
Fail(where) ==
    /\ apc' = "error"
    /\ err' = [type |-> "ValueError", what |-> "concat_empty", at |-> where]
    /\ UNCHANGED <<standard, bootstraps, overlaps, recovery, subset_recovery,
                   total_tests>>

Analyse ==
    /\ apc = "new"
    /\ LET std == load_standard(inputs)
           boots == load_bootstraps(inputs.cohorts, inputs.fdr)
       IN IF inputs.cohorts = <<>>
          THEN Fail("load_bootstraps")
          ELSE IF cohort_sizes(boots) = {}
          THEN Fail("measure_subset_recovery")
          ELSE /\ apc' = "loaded"
               /\ err' = err
               /\ standard' = std
               /\ bootstraps' = boots
               /\ overlaps' \in overlap_tables(std, boots)
               /\ recovery' \in hit_recovery_tables(std, boots, None)
               /\ subset_recovery' \in subset_recovery_tables(std, boots)
               /\ total_tests' = n_unique_cohorts(boots)
    /\ UNCHANGED <<inputs, step, status, columns, cfg, fs, fs0, fsLog,
                   objVars, runVars, rerunVars>>

\* BootstrapAnalysis.export_table: the frame that is written, None for the
\* ValueError of an unknown table name
export_table(table) ==
    CASE table = "overlaps" -> Some(overlaps)
      [] table = "recovery" -> Some(recovery)
      [] table = "subset_recovery" -> Some(subset_recovery)
      [] OTHER -> None

\* .str.replace(pattern, ""): the first occurrence of the pattern is removed
str_replace(s, pattern) ==
    LET i == IndexOf(s, pattern)
    IN IF i = 0 THEN s ELSE SubSeq(s, 1, i - 1) \o SubSeq(s, i + 1, Len(s))

\* with_columns(pl.col("gene").str.replace("_P1", "").str.replace("_P2", ""))
relabel(frame) ==
    [i \in 1..Len(frame) |->
        [frame[i] EXCEPT !.gene = str_replace(str_replace(@, "_P1"), "_P2")]]

\* Recovery(bsa, relabel_tss=...): with relabel_tss the relabelled frame is
\* assigned to bsa.recovery; the plot itself keeps no state of the analysis
RecoveryPlot ==
    /\ apc = "loaded"
    /\ \E relabel_tss \in BOOLEAN :
          recovery' = IF relabel_tss THEN relabel(recovery) ELSE recovery
    /\ UNCHANGED <<apc, inputs, standard, bootstraps, overlaps,
                   subset_recovery, total_tests, setupVars, objVars, runVars,
                   rerunVars>>

AnalysisInit ==
    /\ step = Len(InitSteps) + 1
    /\ status = "ok"
    /\ err = NoErr
    /\ columns = <<>>
    /\ reference_libraries = <<>>
    /\ test_libraries = <<>>
    /\ cfg = NoCfg
    /\ fs = ReadyTree
    /\ fs0 = EmptyTree
    /\ fsLog = <<>>
    /\ RunIdle
    /\ apc = "new"
    /\ inputs \in AnalysisInputs
    /\ standard = <<>>
    /\ bootstraps = <<>>
    /\ overlaps = <<>>
    /\ recovery = <<>>
    /\ subset_recovery = <<>>
    /\ total_tests = 0

AnalysisNext ==
    \/ Analyse
    \/ RecoveryPlot

\* the construction of a BootstrapAnalysis over the files of a finished run
SpecAnalysis == AnalysisInit /\ [][AnalysisNext]_vars

----------------------------------------------------------------------------
(* Claims about the construction of a Rescreener *)

OutRoot == <<Get(cfg.prefix)>>

\* C1: when the output root already exists and overwrite is false, the
\* constructor does not succeed, the error _initialize_output_dir raises is
\* the directory conflict (FileExistsError), and the filesystem is what it was
\* when the constructor was called: nothing is deleted, nothing is created.
C1_ConflictLeavesFilesystem ==
    (cfg.stored /\ ~IsNone(cfg.prefix) /\ Exists(fs0, OutRoot)
        /\ ~cfg.overwrite)
    => /\ status # "ok"
       /\ fs = fs0
       /\ fsLog = <<>>
       /\ (status = "error" /\ err.at = "initialize_output_dir")
          => (err.type = "FileExistsError" /\ err.what = "directory_exists")

\* C1 witness: the conflict is raised over a root that holds an earlier run
C1_Witness ==
    /\ status = "error"
    /\ err.what = "directory_exists"
    /\ ~cfg.overwrite
    /\ <<"out", "subsets", "old.gene_results.tsv">> \in fs.files

ValidationErrors ==
    {"header", "empty_test_set", "unknown_reference", "unknown_test",
     "tool_not_found", "aggregation_method", "no_prefix"}

\* C2: when the constructor ends in a validation error (header, empty test
\* set, unknown library, tool not found, unsupported method, missing prefix),
\* no filesystem-mutating call has been made, the filesystem is what it was
\* (an existing root is not deleted even under overwrite=true) and no
\* external process has been started.
C2_ValidationBeforeMutation ==
    (status = "error" /\ err.what \in ValidationErrors)
    => /\ fsLog = <<>>
       /\ fs = fs0
       /\ invocations = <<>>

\* C2 witness: a validation fails with overwrite=true over an existing root
C2_Witness ==
    /\ status = "error"
    /\ err.what \in {"tool_not_found", "aggregation_method"}
    /\ cfg.overwrite
    /\ ~IsNone(cfg.prefix)
    /\ <<"out", "subsets", "old.gene_results.tsv">> \in fs0.files

----------------------------------------------------------------------------
(* Claims about run_bootstraps *)

\* ceil(a / b) for b > 0
CeilDiv(a, b) == -((-a) \div b)

Max(a, b) == IF a >= b THEN a ELSE b

CohortsNamed(name) == {i \in 1..Len(args_list) : args_list[i][1] = name}

\* the cohorts of subset size s and replicate index r, both read from the
\* cohort's name as the analysis reads them
CohortsOf(s, r) ==
    {i \in 1..Len(args_list) :
        /\ SubsetOf(args_list[i][1]) = Some(s)
        /\ ReplicateOf(args_list[i][1]) = Some(r)
        /\ Len(args_list[i][2]) = s}

ExpectedSizes ==
    {s \in 1..(Len(test_libraries) - 1) : (s - 1) % params.step_value = 0}

OnePerPairAndUnique ==
    /\ \A s \in ExpectedSizes, r \in 0..(params.num_reps - 1) :
          Cardinality(CohortsOf(s, r)) = 1
    /\ \A i \in 1..Len(args_list) :
          CohortsNamed(args_list[i][1]) = {i}

InvocationsOf(i) ==
    {k \in 1..Len(invocations) : invocations[k].task = i}

\* C4: every crispr_screen process run_bootstraps starts is the one of a
\* cohort of args_list: its test libraries are the cohort's sample, its
\* reference libraries the run's, its output prefix subsets/<cohort name>.
\* No cohort is started twice, no two processes are given the same output
\* prefix, and when run_bootstraps returns every cohort has exactly one.
C4_OneInvocationPerCohort ==
    /\ \A k \in 1..Len(invocations) :
          LET inv == invocations[k]
          IN /\ inv.task \in 1..Len(args_list)
             /\ inv.test_libraries = args_list[inv.task][2]
             /\ inv.reference_libraries = reference_libraries
             /\ inv.output_prefix =
                   [dir |-> <<"out", "subsets">>,
                    name |-> args_list[inv.task][1]]
    /\ \A k, l \in 1..Len(invocations) :
          k # l => invocations[k].output_prefix # invocations[l].output_prefix
    /\ \A i \in 1..Len(args_list) : Cardinality(InvocationsOf(i)) <= 1
    /\ rpc = "returned"
       => \A i \in 1..Len(args_list) : Cardinality(InvocationsOf(i)) = 1

\* C4 witness: two workers run two cohorts of one subset size at once
C4_Witness ==
    /\ rpc = "mapping"
    /\ \E v, w \in DOMAIN worker :
          /\ v # w
          /\ worker[v] # 0
          /\ worker[w] # 0
          /\ Len(args_list[worker[v]][2]) = Len(args_list[worker[w]][2])

\* C5: when run_bootstraps has returned, the process of every cohort of
\* args_list has been started and has exited: no task is queued or running
\* and no worker holds one.
C5_ReturnAfterAllComplete ==
    rpc = "returned"
    => /\ \A i \in 1..Len(args_list) : task[i] = "done"
       /\ \A i \in 1..Len(args_list) : InvocationsOf(i) # {}
       /\ \A w \in DOMAIN worker : worker[w] = 0

\* C5 witness: run_bootstraps has returned from a run of at least two
\* cohorts on a pool of at least two workers
C5_Witness ==
    /\ rpc = "returned"
    /\ Len(args_list) >= 2
    /\ Len(worker) >= 2
    /\ Len(invocations) = Len(args_list)

----------------------------------------------------------------------------
(* Claims about the tables of a BootstrapAnalysis *)

\* the cohorts of the run: the names of the result files found in subsets/
RunCohorts == {cohort_name(inputs.cohorts[i].file) : i \in 1..Len(inputs.cohorts)}

RunCohortsOfSize(s) == {c \in RunCohorts : SubsetOf(c) = Some(s)}

\* the cohorts in which gene g is a hit: a row of the cohort passes the filter
HitCohorts(g) ==
    {bootstraps[i].cohort : i \in {j \in 1..Len(bootstraps) :
                                      bootstraps[j].gene = g}}

HitCohortsOfSize(g, s) == HitCohorts(g) \cap RunCohortsOfSize(s)

\* a fraction num / den that is a number between 0 and 1
InUnitInterval(f) == f.den > 0 /\ 0 <= f.num /\ f.num <= f.den

\* the fraction f equals n / d
FracEquals(f, n, d) == f.den > 0 /\ d > 0 /\ f.num * d = n * f.den

\* C6: every result file loaded from subsets/ has its record in the overlap
\* table, also a file none of whose rows passes the filter (its record has
\* num_overlapping = 0): there are as many OverlapRecords as result files.
C6_EmptyCohortKeepsRecord ==
    apc = "loaded"
    => /\ Len(overlaps) = Len(inputs.cohorts)
       /\ \A c \in RunCohorts :
             \E k \in 1..Len(overlaps) :
                /\ overlaps[k].cohort = c
                /\ (\A i \in 1..Len(bootstraps) : bootstraps[i].cohort # c)
                   => overlaps[k].num_overlapping = 0

\* C7: in the recovery table and in the per-subset recovery table, num_tests
\* of a gene is the number of distinct cohorts (of the scope) with at least
\* one qualifying row for the gene, and frac_tests lies between 0 and 1.
C7_NumTestsCountsCohorts ==
    apc = "loaded"
    => /\ \A k \in 1..Len(recovery) :
             /\ recovery[k].num_tests =
                   Cardinality(HitCohorts(recovery[k].gene))
             /\ InUnitInterval(recovery[k].frac_tests)
       /\ \A k \in 1..Len(subset_recovery) :
             /\ subset_recovery[k].num_tests =
                   Cardinality(HitCohortsOfSize(subset_recovery[k].gene,
                                                subset_recovery[k].subset))
             /\ InUnitInterval(subset_recovery[k].frac_tests)

\* C8: for every OverlapRecord, 0 <= num_overlapping <= |StandardSet|,
\* frac_overlapping = num_overlapping / |StandardSet| and
\* 0 <= frac_overlapping <= 1, |StandardSet| being the number of distinct
\* genes of the filtered standard table.
C8_OverlapWithinStandard ==
    apc = "loaded"
    => \A k \in 1..Len(overlaps) :
          /\ 0 <= overlaps[k].num_overlapping
          /\ overlaps[k].num_overlapping <= Cardinality(in_set(standard))
          /\ overlaps[k].frac_overlapping =
                [num |-> overlaps[k].num_overlapping,
                 den |-> Cardinality(in_set(standard))]
          /\ InUnitInterval(overlaps[k].frac_overlapping)

\* C9: frac_tests of a gene is the number of cohorts in which it is a hit
\* divided by the number of cohorts of the scope: all cohorts of the run in
\* the recovery table, the cohorts of the record's subset size in the
\* per-subset table.
C9_RecoveryOverAllCohorts ==
    apc = "loaded"
    => /\ \A k \in 1..Len(recovery) :
             FracEquals(recovery[k].frac_tests,
                        Cardinality(HitCohorts(recovery[k].gene)),
                        Cardinality(RunCohorts))
       /\ \A k \in 1..Len(subset_recovery) :
             FracEquals(subset_recovery[k].frac_tests,
                        Cardinality(HitCohortsOfSize(
                            subset_recovery[k].gene,
                            subset_recovery[k].subset)),
                        Cardinality(RunCohortsOfSize(
                            subset_recovery[k].subset)))

\* C10: over an empty StandardSet the overlap table is not computed: the
\* analysis is never loaded with an empty StandardSet, and no OverlapRecord
\* carries a fraction whose denominator is zero.
C10_EmptyStandardFails ==
    apc = "loaded"
    => /\ in_set(standard) # {}
       /\ \A k \in 1..Len(overlaps) : overlaps[k].frac_overlapping.den # 0

\* the rows the filters are to retain: fdr strictly below the threshold and,
\* when the category filter is enabled, a gene not starting with "amalgam"
Retained(rows) ==
    SelectSeq(rows, LAMBDA r :
        /\ r.fdr < inputs.fdr
        /\ (inputs.ignore_amalgams => ~(r.gene # <<>> /\ r.gene[1] = "amalgam")))

\* the (gene, fdr) rows the bootstrap table holds for cohort c, in order
LoadedRows(c) ==
    LET mine == SelectSeq(bootstraps, LAMBDA r : r.cohort = c)
    IN [i \in 1..Len(mine) |-> [gene |-> mine[i].gene, fdr |-> mine[i].fdr]]

\* the standard table holds exactly the rows to retain
StandardRetained == standard = Retained(inputs.standard)

\* C11: in the standard table and in the table of every cohort a row is
\* retained if and only if its fdr is strictly below the threshold and, when
\* ignore_amalgams is set, its gene does not start with "amalgam"; with
\* ignore_amalgams=False the amalgam rows are retained in every table.
C11_FilterInEveryTable ==
    apc = "loaded"
    => /\ StandardRetained
       /\ \A i \in 1..Len(inputs.cohorts) :
             LoadedRows(cohort_name(inputs.cohorts[i].file))
                 = Retained(inputs.cohorts[i].rows)

----------------------------------------------------------------------------
(* Claims about the library sets and the output root after construction *)

\* every reference and test library is a column other than Guide and Gene
LibrariesAreColumns ==
    \A n \in Range(reference_libraries) \cup Range(test_libraries) :
        /\ n \in Range(columns)
        /\ n \notin {"Guide", "Gene"}

\* C12: after every successful construction, with the test libraries given
\* explicitly or derived, the reference set and the test set are disjoint,
\* every name of either set is a column of the count matrix other than Guide
\* and Gene, and the test set is not empty.
C12_LibrarySetsWellFormed ==
    status = "ok"
    => /\ Range(reference_libraries) \cap Range(test_libraries) = {}
       /\ LibrariesAreColumns
       /\ test_libraries # <<>>

\* the directories and the files of the tree that lie strictly under p
DirsUnder(tree, p) == {d \in tree.dirs : IsPrefixOf(p, d) /\ d # p}
FilesUnder(tree, p) == {f \in tree.files : IsPrefixOf(p, f) /\ f # p}

\* C13: when the output root was absent, or present with overwrite=true, a
\* successful construction leaves the root ready: the root is a directory
\* holding exactly the two directories full and subsets, both empty, so that
\* no file or directory that was under the root before the call is left.
C13_RootReadyAfterConstruction ==
    (status = "ok" /\ (~Exists(fs0, OutRoot) \/ cfg.overwrite))
    => /\ OutRoot \in fs.dirs
       /\ DirsUnder(fs, OutRoot)
              = {OutRoot \o <<"full">>, OutRoot \o <<"subsets">>}
       /\ FilesUnder(fs, OutRoot) = {}
       /\ FilesUnder(fs0, OutRoot) \cap fs.files = {}

\* C13 witness: a construction succeeds with overwrite=true over a root that
\* held the result file of an earlier run
C13_Witness ==
    /\ status = "ok"
    /\ cfg.overwrite
    /\ FilesUnder(fs0, OutRoot) # {}

----------------------------------------------------------------------------
(* Claims that relate a run to the analysis of its result files *)

\* the largest number written into a name of the round trip over prefixes
MaxNumber == 12

\* prefixes a cohort name may carry, with and without "_" and digits in them
NamePrefixes ==
    { <<"s", "u", "b">>, <<"s", "_", "7">>, <<"r", "_", "2", "_", "3">>,
      <<"4", "2">> }

\* the row the analysis attaches to a hit of the result file of that name
LoadedRow(file_name) ==
    with_columns(<<[gene |-> GeneA, fdr |-> 50]>>, cohort_name(file_name))[1]

\* the result file of the cohort name is loaded with that name, subset size
\* and replicate index
RoundTrip(name, subset_size, rep_index) ==
    LET file_name == name \o <<".gene_results", ".tsv">>
    IN /\ cohort_name(file_name) = name
       /\ SubsetOf(name) = Some(subset_size)
       /\ ReplicateOf(name) = Some(rep_index)
       /\ LoadedRow(file_name).cohort = name
       /\ LoadedRow(file_name).subset = subset_size
       /\ LoadedRow(file_name).replicate = rep_index

\* C15: for every cohort run_bootstraps generates, with subset size s (the
\* number of sampled libraries) and replicate index r (its position within
\* the cohorts of its size), the file <name>.gene_results.tsv is loaded with
\* cohort = name, subset = s and replicate = r; the two integers come from
\* the last two "_"-delimited tokens whatever prefix stands in front of them.
C15_CohortNameRoundTrip ==
    /\ \A i \in 1..Len(args_list) :
          RoundTrip(args_list[i][1], Len(args_list[i][2]),
                    (i - 1) % params.num_reps)
    /\ rpc = "prepared"
       => \A q \in NamePrefixes, n \in 1..MaxNumber, r \in 0..MaxNumber :
             RoundTrip(q \o <<"_">> \o Digits(n) \o <<"_">> \o Digits(r), n, r)

\* C15 witness: the run holds the cohort of two libraries and replicate 1
C15_Witness ==
    /\ rpc # "idle"
    /\ \E i \in 1..Len(args_list) :
          /\ Len(args_list[i][2]) = 2
          /\ args_list[i][1] = CohortName(2, 1)

----------------------------------------------------------------------------
(* Claims about the plots built from an analysis *)

\* C16: constructing Recovery plots leaves the tables of the analysis as they
\* were built: after any number of constructions bsa.recovery, and so the
\* frame export_table("recovery") writes, is a table _measure_hit_recovery
\* yields for the loaded standard and bootstraps, with the same gene names
\* and rows.
C16_RecoveryPlotKeepsTables ==
    apc = "loaded"
    => /\ recovery \in hit_recovery_tables(standard, bootstraps, None)
       /\ export_table("recovery")
              \in {Some(t) : t \in hit_recovery_tables(standard, bootstraps,
                                                       None)}

----------------------------------------------------------------------------
(* Claims about repeated runs *)

\* C14: two runs of run_bootstraps with the same seed, step, num_reps,
\* replacement mode and ordered test-library list hold the same ordered
\* args_list (names and sampled libraries), under every pool size of either
\* run and at every point of the execution of the second run; the list is
\* the one the five arguments determine, and it is complete before the first
\* process of the run is started.
C14_SameArgumentsSameCohorts ==
    /\ (~IsNone(prev) /\ params = Get(prev).params)
       => args_list = Get(prev).args_list
    /\ rpc # "idle"
       => args_list = BuildArgsList(test_libraries, params.step_value,
                                    params.num_reps, params.seed,
                                    cfg.with_replacement)
    /\ invocations # <<>> => rpc \in {"mapping", "returned"}

\* C14 witness: the second run has returned under another pool size than the
\* first, with cohorts of two subset sizes
C14_Witness ==
    /\ ~IsNone(prev)
    /\ rpc = "returned"
    /\ PoolSize(cfg.n_threads) # PoolSize(Get(prev).n_threads)
    /\ \E i, j \in 1..Len(args_list) :
          Len(args_list[i][2]) # Len(args_list[j][2])

====
